---- MODULE Spec2Model ----
(***************************************************************************)
(* The grid-movement and walk-cycle state machine of the adventure demo    *)
(* (src/src/main.rs): the player's Direction, Moving(bool, bool) and       *)
(* Position components and the systems that mutate them.                   *)
(*                                                                         *)
(* Rust tuple fields are 0-based, TLA+ tuples 1-based:                     *)
(*   moving.0 (is the player walking)   is moving[1]                       *)
(*   moving.1 (the walk-cycle phase)    is moving[2]                       *)
(***************************************************************************)
EXTENDS Integers, Sequences, FiniteSets, TLC

\* const ARENA_WIDTH: i32 = 20; const ARENA_HEIGHT: i32 = 20;
ARENA_WIDTH == 20
ARENA_HEIGHT == 20

\* enum Direction { North, South, East, West }
Direction == {"North", "South", "East", "West"}

\* struct Position { x: i32, y: i32 }; the cells of the arena
Position == [x : 0 .. (ARENA_WIDTH - 1), y : 0 .. (ARENA_HEIGHT - 1)]

\* Position::new(x, y)
Position_new(x, y) == [x |-> x, y |-> y]

\* struct Moving(bool, bool)
Moving == BOOLEAN \X BOOLEAN

\* The key codes the systems query, and the part of the Input<KeyCode>
\* resource a frame's system is run with: the keys that are held (pressed)
\* and the keys whose release edge falls in this frame (just_released).
DirectionKeys == {"W", "A", "S", "D"}
ToggleKeys == {"Space"}
KeyboardInput == [pressed : SUBSET (DirectionKeys \cup ToggleKeys),
                  just_released : SUBSET ToggleKeys]
NoKeys == [pressed |-> {}, just_released |-> {}]

\* std::cmp::min / std::cmp::max on i32
min(a, b) == IF a <= b THEN a ELSE b
max(a, b) == IF a >= b THEN a ELSE b

\* No value: a local that the current invocation did not bind, or the None
\* of an Option.
None == [none |-> TRUE]

(***************************************************************************)
(* f32 arithmetic.  A finite f32 is <<m, e>>, standing for m * 2^e, with m *)
(* odd and |m| < 2^24, or <<0, 0>>.  Every operation computes the exact    *)
(* result (or enough of it: leading bits and a sticky bit) and rounds it   *)
(* to nearest, ties to even, as IEEE 754 binary32 does.  The values of     *)
(* this program stay far from the exponent limits.                         *)
(***************************************************************************)
RECURSIVE bit_length(_)
bit_length(n) == IF n = 0 THEN 0 ELSE 1 + bit_length(n \div 2)

RECURSIVE f32_canonical(_, _)
f32_canonical(m, e) ==
    IF m = 0 THEN <<0, 0>>
    ELSE IF m % 2 = 0 THEN f32_canonical(m \div 2, e + 1)
    ELSE <<m, e>>

\* n * 2^e, n >= 0, rounded to 24 significant bits.
f32_round_magnitude(n, e) ==
    LET len == bit_length(n) IN
    IF len <= 24 THEN f32_canonical(n, e)
    ELSE LET s == len - 24
             q == n \div (2 ^ s)
             r == n % (2 ^ s)
             half == 2 ^ (s - 1)
             up == r > half \/ (r = half /\ q % 2 = 1)
         IN  f32_canonical(IF up THEN q + 1 ELSE q, e + s)

f32_neg(a) == <<-a[1], a[2]>>

abs(n) == IF n < 0 THEN -n ELSE n

f32_round(n, e) ==
    IF n < 0 THEN f32_neg(f32_round_magnitude(-n, e)) ELSE f32_round_magnitude(n, e)

\* `i as f32`
f32_from_i32(i) == f32_round(i, 0)

\* a + b
f32_add(a, b) ==
    LET e == IF a[2] <= b[2] THEN a[2] ELSE b[2]
    IN  f32_round(a[1] * 2 ^ (a[2] - e) + b[1] * 2 ^ (b[2] - e), e)

\* a - b
f32_sub(a, b) == f32_add(a, f32_neg(b))

\* a * b; one of the two significands is below 2^11 (a window extent).  A
\* product too wide for 32-bit model integers is kept as its
\* leading bits and a sticky bit.
f32_mul(a, b) ==
    LET negative == (a[1] < 0) # (b[1] < 0)
        big == IF abs(a[1]) >= abs(b[1]) THEN abs(a[1]) ELSE abs(b[1])
        small == IF abs(a[1]) >= abs(b[1]) THEN abs(b[1]) ELSE abs(a[1])
        e == a[2] + b[2]
        r == IF small = 0 THEN <<0, 0>>
             ELSE IF big <= (2 ^ 30) \div small THEN f32_round_magnitude(big * small, e)
             ELSE LET t == (big % 4096) * small
                      hi == (big \div 4096) * small + t \div 4096
                      lo == t % 4096
                      sticky == IF lo % 64 # 0 THEN 1 ELSE 0
                  IN  f32_round_magnitude(2 * (hi * 64 + lo \div 64) + sticky, e + 5)
    IN  IF negative THEN f32_neg(r) ELSE r

\* a / b, b # 0 with a significand below 16 (the divisors here are 20.0 and
\* 2.0): the quotient to 26 bits or more, and a sticky bit.
f32_div(a, b) ==
    LET negative == (a[1] < 0) # (b[1] < 0)
        n == abs(a[1])
        d == abs(b[1])
        k == 30 - bit_length(n)
        q == (n * 2 ^ k) \div d
        sticky == IF (n * 2 ^ k) % d # 0 THEN 1 ELSE 0
        r == IF n = 0 THEN <<0, 0>>
             ELSE f32_round_magnitude(2 * q + sticky, a[2] - b[2] - k - 1)
    IN  IF negative THEN f32_neg(r) ELSE r

\* Vec3::new(x, y, z)
Vec3_new(x, y, z) == <<x, y, z>>

\* Vec3::ZERO, the translation of Transform::from_scale(..)
Vec3_ZERO == <<f32_from_i32(0), f32_from_i32(0), f32_from_i32(0)>>

\* The primary windows the presentation systems are run with: the window
\* of main's WindowDescriptor, the same window resized (windows are
\* resizable by default), and no window.
PrimaryWindow == [width |-> 1500, height |-> 1500]
Windows == {PrimaryWindow, [width |-> 800, height |-> 600],
            [width |-> 1366, height |-> 768], None}

\* The ticks counted in a walk without input (a walk across the arena
\* takes at most ARENA_WIDTH of them), and the runs of logic systems allowed
\* between presentation frames in GameSpec.
MaxTicks == 25
MaxSteps == 3

(***************************************************************************)
(* The Tile entities.  setup spawns one per cell,                          *)
(*   for y in 0..ARENA_HEIGHT { for x in 0..ARENA_WIDTH { .. } }           *)
(* each from a SpriteSheetBundle with the default sprite (index 0) and     *)
(* Transform::from_scale(..) (translation zero), with                      *)
(*   .insert(Position { x, y }).insert(Tile)                               *)
(* and nothing despawns an entity.  A tile is named by its place in the    *)
(* spawn order.  The variable tiles stores the component columns of the    *)
(* 400 tiles in compressed form:                                           *)
(*   position      the Position components written since setup, by tile    *)
(*                 (a tile not in its domain has the Position of setup);   *)
(*   sprite_index  the TextureAtlasSprite.index of the tiles, which every  *)
(*                 writer sets for all tiles alike;                        *)
(*   columns, rows the x and y of Transform.translation last written to    *)
(*                 the tiles of each column and row: one run of a system   *)
(*                 writes the same x to all tiles of a column and the same *)
(*                 y to all tiles of a row.                                *)
(***************************************************************************)
Tiles == 1 .. (ARENA_WIDTH * ARENA_HEIGHT)

\* .insert(Position { x, y }) of the tile spawned i-th
setup_tile_position(i) ==
    [x |-> (i - 1) % ARENA_WIDTH, y |-> (i - 1) \div ARENA_WIDTH]

setup_tiles ==
    [position |-> << >>,
     sprite_index |-> 0,
     columns |-> [x \in 0 .. (ARENA_WIDTH - 1) |-> f32_from_i32(0)],
     rows |-> [y \in 0 .. (ARENA_HEIGHT - 1) |-> f32_from_i32(0)]]

(***************************************************************************)
(* The entities.  setup spawns the player first and then the tiles, and no *)
(* system holds Commands, so none is spawned or despawned afterwards.  An  *)
(* entity is named by its place in the spawn order: 0 is the player.       *)
(***************************************************************************)
PlayerEntity == 0

Entities == {PlayerEntity} \cup Tiles

\* The components setup gives an entity: the bundle and the .insert(..) calls.
components(e) ==
    IF e = PlayerEntity
    THEN {"TextureAtlasSprite", "Transform", "Player", "Direction", "Position", "Moving"}
    ELSE {"TextureAtlasSprite", "Transform", "Position", "Tile"}

\* The entities a Query<(..)>, optionally With<..>, iterates over.
Query(fetched) == {e \in Entities : fetched \subseteq components(e)}

\* fn entity_walk(mut query: Query<(&Direction, &mut Moving, &mut Position)>)
entity_walk_query == Query({"Direction", "Moving", "Position"})

VARIABLES
    direction,          \* the player's Direction component
    moving,             \* the player's Moving component, <<moving.0, moving.1>>
    position,           \* the player's Position component
    previous_position,  \* entity_walk's local of that name in its last run, or None
    keyboard_input,     \* what the last input system read of Input<KeyCode>
    system,             \* the system the scheduler ran last
    sprite_index,       \* the player's TextureAtlasSprite.index
    translation,        \* the player's Transform.translation
    windows,            \* windows.get_primary() as the last presentation system saw it
    tiles,              \* the components of the Tile entities (see above)
    scenario,           \* observer: progress along the run "setup, one toggle,
                        \* 5 ticks" (0 after setup .. 6 at its end), -1 once left
    ticks,              \* observer: the ticks that found the player walking since
                        \* the start of a walk without input, -1 when not counted
    steps               \* observer: runs of the three logic systems, up to MaxSteps

vars == <<direction, moving, position, previous_position, keyboard_input, system,
          sprite_index, translation, windows, tiles, scenario, ticks, steps>>

\* What the presentation systems write.
presentation == <<sprite_index, translation, windows, tiles>>

\* The components of one tile.
tile_position(i) ==
    IF i \in DOMAIN tiles.position THEN tiles.position[i] ELSE setup_tile_position(i)

tile_sprite_index(i) == tiles.sprite_index

tile_translation(i) ==
    Vec3_new(tiles.columns[tile_position(i).x], tiles.rows[tile_position(i).y],
             f32_from_i32(0))

TypeOK ==
    /\ direction \in Direction
    /\ moving \in Moving
    /\ position \in [x : Int, y : Int]
    /\ previous_position \in [x : Int, y : Int] \cup {None}
    /\ keyboard_input \in KeyboardInput
    /\ system \in {"setup", "change_player_direction", "move_player", "entity_walk",
                   "animate_player_sprite", "animate_tiles"}
    /\ sprite_index \in Nat
    /\ translation \in Seq(Int \X Int)
    /\ windows \in Windows
    /\ DOMAIN tiles = {"position", "sprite_index", "columns", "rows"}
    /\ scenario \in -1 .. 6
    /\ ticks \in -1 .. MaxTicks
    /\ steps \in 0 .. MaxSteps

\* setup: the player is spawned from a SpriteSheetBundle with the default
\* sprite (index 0) and Transform::from_scale(..) (translation zero), then
\*   .insert(Direction::North).insert(Position::new(0, 0))
\*   .insert(Moving(false, true)).insert(Player)
Init ==
    /\ direction = "North"
    /\ position = Position_new(0, 0)
    /\ moving = <<FALSE, TRUE>>
    /\ previous_position = None
    /\ keyboard_input = NoKeys
    /\ system = "setup"
    /\ sprite_index = 0
    /\ translation = Vec3_ZERO
    /\ windows = PrimaryWindow
    /\ tiles = setup_tiles
    /\ scenario = 0
    /\ ticks = -1
    /\ steps = 0

\* (fault) the four tests as an if / else-if chain: the first held key wins.
DirectionAfterKeys_first_wins(d, pressed) ==
    IF "W" \in pressed THEN "North"
    ELSE IF "A" \in pressed THEN "West"
    ELSE IF "S" \in pressed THEN "South"
    ELSE IF "D" \in pressed THEN "East"
    ELSE d

\* (fault) A and D exchanged.
DirectionAfterKeys_swapped(d, pressed) ==
    LET d1 == IF "W" \in pressed THEN "North" ELSE d
        d2 == IF "A" \in pressed THEN "East" ELSE d1
        d3 == IF "S" \in pressed THEN "South" ELSE d2
        d4 == IF "D" \in pressed THEN "West" ELSE d3
    IN  d4

\* The four `if keyboard_input.pressed(..)` of change_player_direction, in
\* program order: each one that holds overwrites the direction.
DirectionAfterKeys(d, pressed) ==
    LET d1 == IF "W" \in pressed THEN "North" ELSE d
        d2 == IF "A" \in pressed THEN "West" ELSE d1
        d3 == IF "S" \in pressed THEN "South" ELSE d2
        d4 == IF "D" \in pressed THEN "East" ELSE d3
    IN  d4

\* The scripted run of the end-to-end scenario: a frame with key input that
\* is not the scripted one leaves it for good.
ScenarioAfterInput(k) ==
    IF k = NoKeys THEN scenario
    ELSE IF scenario = 0 /\ k = [pressed |-> {}, just_released |-> {"Space"}] THEN 1
    ELSE -1

ScenarioAfterTick ==
    IF scenario \in 1 .. 5 THEN scenario + 1 ELSE -1

\* A counted tick that finds the player walking.
TicksAfterTick ==
    IF ticks >= 0 /\ moving[1] /\ ticks < MaxTicks THEN ticks + 1 ELSE ticks

\* One more run of a logic system.
StepsAfterStep ==
    IF steps < MaxSteps THEN steps + 1 ELSE steps

\* The components of the player the logic systems query.
player == [direction |-> direction, moving |-> moving, position |-> position]

\* (fault) a held directional key also ends the walk.
change_player_direction_on_stops(pl, keys) ==
    [pl EXCEPT !.direction = DirectionAfterKeys(@, keys.pressed),
               !.moving = IF keys.pressed \cap DirectionKeys # {}
                          THEN <<FALSE, @[2]>>
                          ELSE @]

\* What change_player_direction does to the player's components when the
\* keyboard is in state keys: `*direction = ..` under the four tests.
change_player_direction_on(pl, keys) ==
    [pl EXCEPT !.direction = DirectionAfterKeys(@, keys.pressed)]

\* What move_player does to the player's components when the keyboard is in
\* state keys: `moving.0 = !moving.0` under just_released(KeyCode::Space).
move_player_on(pl, keys) ==
    [pl EXCEPT !.moving = IF "Space" \in keys.just_released
                          THEN <<~@[1], @[2]>>
                          ELSE @]

\* (fault) pressing a directional key also starts the walk.
change_player_direction_starts ==
    \E pressed \in SUBSET DirectionKeys :
        /\ keyboard_input' = [pressed |-> pressed, just_released |-> {}]
        /\ direction' = DirectionAfterKeys(direction, pressed)
        /\ moving' = IF pressed # {} THEN <<TRUE, moving[2]>> ELSE moving
        /\ system' = "change_player_direction"
        /\ previous_position' = None
        /\ scenario' = ScenarioAfterInput(keyboard_input')
        /\ steps' = StepsAfterStep
        /\ UNCHANGED ticks
        /\ UNCHANGED <<position, presentation>>

\* fn change_player_direction(keyboard_input, query)
change_player_direction ==
    \E pressed \in SUBSET DirectionKeys :
        /\ keyboard_input' = [pressed |-> pressed, just_released |-> {}]
        /\ direction' = change_player_direction_on(player, keyboard_input').direction
        /\ system' = "change_player_direction"
        /\ previous_position' = None
        /\ scenario' = ScenarioAfterInput(keyboard_input')
        /\ steps' = StepsAfterStep
        /\ UNCHANGED ticks
        /\ UNCHANGED <<moving, position, presentation>>

\* (fault) level-triggered: toggles while Space is held, not on its release.
move_player_while_pressed ==
    \E pressed \in SUBSET ToggleKeys, just_released \in SUBSET ToggleKeys :
        /\ keyboard_input' = [pressed |-> pressed, just_released |-> just_released]
        /\ moving' = IF "Space" \in pressed
                     THEN <<~moving[1], moving[2]>>
                     ELSE moving
        /\ system' = "move_player"
        /\ previous_position' = None
        /\ scenario' = ScenarioAfterInput(keyboard_input')
        /\ steps' = StepsAfterStep
        /\ UNCHANGED ticks
        /\ UNCHANGED <<direction, position, presentation>>

\* fn move_player(keyboard_input, query)
move_player ==
    \E pressed \in SUBSET ToggleKeys, just_released \in SUBSET ToggleKeys :
        /\ keyboard_input' = [pressed |-> pressed, just_released |-> just_released]
        /\ moving' = move_player_on(player, keyboard_input').moving
        /\ system' = "move_player"
        /\ previous_position' = None
        /\ scenario' = ScenarioAfterInput(keyboard_input')
        /\ steps' = StepsAfterStep
        /\ UNCHANGED ticks
        /\ UNCHANGED <<direction, position, presentation>>

\* (fault) no clamping at the far edges.
walk_step_unclamped(d, p) ==
    CASE d = "North" -> [p EXCEPT !.y = p.y + 1]
      [] d = "South" -> [p EXCEPT !.y = max(p.y - 1, 0)]
      [] d = "East"  -> [p EXCEPT !.x = p.x + 1]
      [] d = "West"  -> [p EXCEPT !.x = max(p.x - 1, 0)]

\* (fault) the clamp one cell short of the far edges.
walk_step_short(d, p) ==
    CASE d = "North" -> [p EXCEPT !.y = min(p.y + 1, ARENA_HEIGHT - 2)]
      [] d = "South" -> [p EXCEPT !.y = max(p.y - 1, 0)]
      [] d = "East"  -> [p EXCEPT !.x = min(p.x + 1, ARENA_WIDTH - 2)]
      [] d = "West"  -> [p EXCEPT !.x = max(p.x - 1, 0)]

\* (fault) the y axis taken as growing downwards, as on a screen.
walk_step_y_down(d, p) ==
    CASE d = "North" -> [p EXCEPT !.y = max(p.y - 1, 0)]
      [] d = "South" -> [p EXCEPT !.y = min(p.y + 1, ARENA_HEIGHT - 1)]
      [] d = "East"  -> [p EXCEPT !.x = min(p.x + 1, ARENA_WIDTH - 1)]
      [] d = "West"  -> [p EXCEPT !.x = max(p.x - 1, 0)]

\* The match of entity_walk: the clamped candidate position.
walk_step(d, p) ==
    CASE d = "North" -> [p EXCEPT !.y = min(p.y + 1, ARENA_HEIGHT - 1)]
      [] d = "South" -> [p EXCEPT !.y = max(p.y - 1, 0)]
      [] d = "East"  -> [p EXCEPT !.x = min(p.x + 1, ARENA_WIDTH - 1)]
      [] d = "West"  -> [p EXCEPT !.x = max(p.x - 1, 0)]

\* (fault) no auto-stop: the player keeps walking against the wall.
entity_walk_no_autostop ==
    /\ IF moving[1]
       THEN /\ previous_position' = position
            /\ position' = walk_step(direction, position)
            /\ moving' = <<moving[1], ~moving[2]>>
       ELSE /\ previous_position' = None
            /\ UNCHANGED <<moving, position>>
    /\ system' = "entity_walk"
    /\ scenario' = ScenarioAfterTick
    /\ ticks' = TicksAfterTick
    /\ steps' = StepsAfterStep
    /\ UNCHANGED <<direction, keyboard_input, presentation>>

\* (fault) the phase flips only when the move is committed.
entity_walk_phase_on_move ==
    /\ IF moving[1]
       THEN /\ previous_position' = position
            /\ position' = walk_step(direction, position)
            /\ moving' = IF position' = previous_position'
                         THEN <<FALSE, moving[2]>>
                         ELSE <<moving[1], ~moving[2]>>
       ELSE /\ previous_position' = None
            /\ UNCHANGED <<moving, position>>
    /\ system' = "entity_walk"
    /\ scenario' = ScenarioAfterTick
    /\ ticks' = TicksAfterTick
    /\ steps' = StepsAfterStep
    /\ UNCHANGED <<direction, keyboard_input, presentation>>

\* (fault) the phase flips outside the `if moving.0`, on every tick.
entity_walk_phase_always ==
    /\ IF moving[1]
       THEN /\ previous_position' = position
            /\ position' = walk_step(direction, position)
            /\ moving' = <<IF position' = previous_position' THEN FALSE ELSE moving[1],
                           ~moving[2]>>
       ELSE /\ previous_position' = None
            /\ moving' = <<moving[1], ~moving[2]>>
            /\ UNCHANGED position
    /\ system' = "entity_walk"
    /\ scenario' = ScenarioAfterTick
    /\ ticks' = TicksAfterTick
    /\ steps' = StepsAfterStep
    /\ UNCHANGED <<direction, keyboard_input, presentation>>

\* (fault) the step is applied to every entity with a Position: the tiles
\* walk with the player.
entity_walk_every_position ==
    /\ IF moving[1]
       THEN /\ previous_position' = position
            /\ position' = walk_step(direction, position)
            /\ moving' = <<IF position' = previous_position' THEN FALSE ELSE moving[1],
                           ~moving[2]>>
            /\ tiles' = [tiles EXCEPT !.position =
                            [i \in Tiles |-> walk_step(direction, tile_position(i))]]
       ELSE /\ previous_position' = None
            /\ UNCHANGED <<moving, position, tiles>>
    /\ system' = "entity_walk"
    /\ scenario' = ScenarioAfterTick
    /\ ticks' = TicksAfterTick
    /\ steps' = StepsAfterStep
    /\ UNCHANGED <<direction, keyboard_input, sprite_index, translation, windows>>

\* fn entity_walk(query): the only entity with Direction, Moving and Position
\* is the player, so the loop body runs once.
entity_walk ==
    /\ IF moving[1]
       THEN /\ previous_position' = position
            /\ position' = walk_step(direction, position)
            /\ moving' = <<IF position' = previous_position' THEN FALSE ELSE moving[1],
                           ~moving[2]>>
       ELSE /\ previous_position' = None
            /\ UNCHANGED <<moving, position>>
    /\ system' = "entity_walk"
    /\ scenario' = ScenarioAfterTick
    /\ ticks' = TicksAfterTick
    /\ steps' = StepsAfterStep
    /\ UNCHANGED <<direction, keyboard_input, presentation>>

PLAYER_SPRITE_NORTH == 40
PLAYER_SPRITE_SOUTH == 4
PLAYER_SPRITE_EAST == 28
PLAYER_SPRITE_WEST == 16

\* TextureAtlas::from_grid(characters_texture_handle, Vec2::new(16.0, 16.0), 12, 8):
\* the columns and rows of the character atlas.
CHARACTERS_ATLAS_COLUMNS == 12
CHARACTERS_ATLAS_ROWS == 8

\* (fault) the south-facing frames taken from the first cells of the atlas:
\* the centre frame at index 0.
center_sprite_for_south_first(d) ==
    CASE d = "North" -> PLAYER_SPRITE_NORTH
      [] d = "South" -> 0
      [] d = "East"  -> PLAYER_SPRITE_EAST
      [] d = "West"  -> PLAYER_SPRITE_WEST

\* fn center_sprite_for(direction)
center_sprite_for(d) ==
    CASE d = "North" -> PLAYER_SPRITE_NORTH
      [] d = "South" -> PLAYER_SPRITE_SOUTH
      [] d = "East"  -> PLAYER_SPRITE_EAST
      [] d = "West"  -> PLAYER_SPRITE_WEST

\* (fault) the walk cycle chosen by the phase alone, also when idle.
body_sprite_for_phase_only(d, m) ==
    LET center_sprite_index == center_sprite_for(d) IN
    IF m[2] = TRUE
    THEN center_sprite_index + 1
    ELSE center_sprite_index - 1

\* fn body_sprite_for(direction, moving).  The usize arithmetic is taken in
\* the integers: a negative result stands for an underflow of the
\* subtraction.
body_sprite_for(d, m) ==
    LET center_sprite_index == center_sprite_for(d) IN
    IF m[1] = TRUE
    THEN IF m[2] = TRUE
         THEN center_sprite_index + 1
         ELSE center_sprite_index - 1
    ELSE center_sprite_index

\* (fault) the half-tile offset left out: the sprite anchored at the corner
\* of its cell.
convert_corner(pos, bound_window, bound_game) ==
    LET two == f32_from_i32(2)
    IN  f32_sub(f32_mul(f32_div(pos, bound_game), bound_window),
                f32_div(bound_window, two))

\* fn convert(pos, bound_window, bound_game)
convert(pos, bound_window, bound_game) ==
    LET tile_size == f32_div(bound_window, bound_game)
        two == f32_from_i32(2)
    IN  f32_add(f32_sub(f32_mul(f32_div(pos, bound_game), bound_window),
                        f32_div(bound_window, two)),
                f32_div(tile_size, two))

\* The screen coordinate of every cell index on the axes of a window:
\* convert(position.x as f32, window.width() as f32, ARENA_WIDTH as f32) and
\* convert(position.y as f32, window.height() as f32, ARENA_HEIGHT as f32),
\* as animate_player_sprite and animate_tiles compute them, tabulated per
\* window.
window_columns ==
    [window \in Windows \ {None} |->
        [x \in 0 .. (ARENA_WIDTH - 1) |->
            convert(f32_from_i32(x), f32_from_i32(window.width),
                    f32_from_i32(ARENA_WIDTH))]]

window_rows ==
    [window \in Windows \ {None} |->
        [y \in 0 .. (ARENA_HEIGHT - 1) |->
            convert(f32_from_i32(y), f32_from_i32(window.height),
                    f32_from_i32(ARENA_HEIGHT))]]

\* (fault) without a primary window the player's sprite is put at the origin.
animate_player_sprite_origin ==
    \E window \in Windows :
        /\ windows' = window
        /\ IF window # None
           THEN /\ sprite_index' = body_sprite_for(direction, moving)
                /\ translation' = Vec3_new(window_columns[window][position.x],
                                           window_rows[window][position.y],
                                           f32_from_i32(0))
           ELSE /\ translation' = Vec3_ZERO
                /\ UNCHANGED sprite_index
        /\ system' = "animate_player_sprite"
        /\ previous_position' = None
        /\ UNCHANGED <<direction, moving, position, keyboard_input, tiles, scenario, ticks, steps>>

\* (fault) an idle player is put back on the first walking frame: the
\* presentation writes Moving.
animate_player_sprite_reset_phase ==
    \E window \in Windows :
        /\ windows' = window
        /\ IF window # None
           THEN /\ sprite_index' = body_sprite_for(direction, moving)
                /\ translation' = Vec3_new(window_columns[window][position.x],
                                           window_rows[window][position.y],
                                           f32_from_i32(0))
           ELSE UNCHANGED <<sprite_index, translation>>
        /\ moving' = IF moving[1] THEN moving ELSE <<FALSE, TRUE>>
        /\ system' = "animate_player_sprite"
        /\ previous_position' = None
        /\ UNCHANGED <<direction, position, keyboard_input, tiles, scenario, ticks, steps>>

\* fn animate_player_sprite(windows, query)
animate_player_sprite ==
    \E window \in Windows :
        /\ windows' = window
        /\ IF window # None
           THEN /\ sprite_index' = body_sprite_for(direction, moving)
                /\ translation' = Vec3_new(window_columns[window][position.x],
                                           window_rows[window][position.y],
                                           f32_from_i32(0))
           ELSE UNCHANGED <<sprite_index, translation>>
        /\ system' = "animate_player_sprite"
        /\ previous_position' = None
        /\ UNCHANGED <<direction, moving, position, keyboard_input, tiles, scenario, ticks, steps>>

\* fn animate_tiles(windows, query): for every tile, sprite.index = 5 and,
\* with a primary window, the translation from its Position.
animate_tiles ==
    \E window \in Windows :
        /\ windows' = window
        /\ tiles' = [tiles EXCEPT
                        !.sprite_index = 5,
                        !.columns = IF window # None THEN window_columns[window] ELSE @,
                        !.rows = IF window # None THEN window_rows[window] ELSE @]
        /\ system' = "animate_tiles"
        /\ previous_position' = None
        /\ UNCHANGED <<direction, moving, position, keyboard_input, sprite_index,
                       translation, scenario, ticks, steps>>

Next ==
    \/ change_player_direction
    \/ move_player
    \/ entity_walk

Spec == Init /\ [][Next]_vars

\* The presentation step on its own, from every state of the player's
\* components: Direction, Moving and Position are drawn from their types
\* (Spec reaches each of the 4 * 2 * 2 * 400 combinations), the sprite and
\* the transform are as setup leaves them.  Keeping the presentation out of
\* Spec keeps the transform of an earlier frame from multiplying the states
\* of the walk.
PresentInit ==
    /\ direction \in Direction
    /\ moving \in Moving
    /\ position \in Position
    /\ previous_position = None
    /\ keyboard_input = NoKeys
    /\ system = "setup"
    /\ sprite_index = 0
    /\ translation = Vec3_ZERO
    /\ windows = PrimaryWindow
    /\ tiles = setup_tiles
    /\ scenario = -1
    /\ ticks = -1
    /\ steps = 0

PresentNext ==
    \/ animate_player_sprite

PresentSpec == PresentInit /\ [][PresentNext]_vars

\* The whole game after setup: the per-frame systems at any time, and at
\* most MaxSteps runs of the logic systems.
GameNext ==
    \/ steps < MaxSteps /\ change_player_direction
    \/ steps < MaxSteps /\ move_player
    \/ steps < MaxSteps /\ entity_walk
    \/ animate_player_sprite
    \/ animate_tiles

GameSpec == Init /\ [][GameNext]_vars

\* A walk without key input: from every state of the player's components
\* only the fixed-timestep system runs, and it keeps running
\* (FixedTimestep::step(0.3) fires it every 0.3 s).
WalkInit ==
    /\ direction \in Direction
    /\ moving \in Moving
    /\ position \in Position
    /\ previous_position = None
    /\ keyboard_input = NoKeys
    /\ system = "setup"
    /\ sprite_index = 0
    /\ translation = Vec3_ZERO
    /\ windows = PrimaryWindow
    /\ tiles = setup_tiles
    /\ scenario = -1
    /\ ticks = 0
    /\ steps = 0

WalkNext ==
    \/ entity_walk

WalkSpec == WalkInit /\ [][WalkNext]_vars /\ WF_vars(entity_walk)

(***************************************************************************)
(* Properties                                                              *)
(***************************************************************************)

\* The step is one invocation of the named system.
Ran(name) == system' = name

\* The player stands in the last cell before the wall it faces.
FacesWall(d, p) ==
    \/ d = "North" /\ p.y = 19
    \/ d = "South" /\ p.y = 0
    \/ d = "East"  /\ p.x = 19
    \/ d = "West"  /\ p.x = 0

\* The clamped unit step as the specification states it.
ClampedUnitStep(d, p, q) ==
    CASE d = "East"  -> q.x = (IF p.x + 1 < 19 THEN p.x + 1 ELSE 19) /\ q.y = p.y
      [] d = "West"  -> q.x = (IF p.x - 1 > 0 THEN p.x - 1 ELSE 0) /\ q.y = p.y
      [] d = "North" -> q.y = (IF p.y + 1 < 19 THEN p.y + 1 ELSE 19) /\ q.x = p.x
      [] d = "South" -> q.y = (IF p.y - 1 > 0 THEN p.y - 1 ELSE 0) /\ q.x = p.x

\* C1: in every reachable state the player's cell lies in the arena,
\* 0 <= x < 20 and 0 <= y < 20, and a tick never carries the player further
\* than to a neighbouring cell (a move off the arena is suppressed, never
\* wrapped to the opposite edge).
C1_PositionInArena ==
    /\ 0 <= position.x /\ position.x < 20
    /\ 0 <= position.y /\ position.y < 20
    /\ previous_position # None =>
          LET dx == position.x - previous_position.x
              dy == position.y - previous_position.y
          IN  <<dx, dy>> \in {<<0, 0>>, <<1, 0>>, <<-1, 0>>, <<0, 1>>, <<0, -1>>}

\* C1 witness: a tick at the far corner, eastwards, was suppressed.
C1_Witness ==
    /\ system = "entity_walk"
    /\ direction = "East"
    /\ previous_position = position
    /\ position = [x |-> 19, y |-> 19]

\* C2: a tick with active = true changes exactly one axis by a clamped unit
\* step and leaves the other axis unchanged.
C2_ClampedStep ==
    [][Ran("entity_walk") /\ moving[1] => ClampedUnitStep(direction, position, position')]_vars

\* C2 witness: a tick moved the walking player east into the last column.
C2_Witness ==
    /\ system = "entity_walk"
    /\ direction = "East"
    /\ previous_position # None
    /\ previous_position.x = 18
    /\ position.x = 19

\* C3: a tick of a walking player that faces the wall from the last cell
\* leaves the position and clears active; a tick of an idle player leaves
\* position and active as they are; a tick of a walking player that does
\* not face the wall from the last cell moves it and leaves active set.
C3_AutoStop ==
    [][Ran("entity_walk") =>
         /\ moving[1] /\ FacesWall(direction, position)
               => position' = position /\ ~moving'[1]
         /\ ~moving[1]
               => position' = position /\ ~moving'[1]
         /\ moving[1] /\ ~FacesWall(direction, position)
               => position' # position /\ moving'[1]
                    /\ ClampedUnitStep(direction, position, position')]_vars

\* C3 witness: a tick at x = 19, eastwards, stopped the player.
C3_Witness ==
    /\ system = "entity_walk"
    /\ direction = "East"
    /\ previous_position = position
    /\ position.x = 19
    /\ ~moving[1]

\* C4: the phase flips on every tick that finds active set, the blocked one
\* included, and keeps its value on every tick that finds active clear.
C4_PhaseToggle ==
    [][Ran("entity_walk") =>
         moving'[2] = (IF moving[1] THEN ~moving[2] ELSE moving[2])]_vars

\* C4 witness: a tick blocked at the north wall has stopped the player and
\* left the phase set.
C4_Witness ==
    /\ system = "entity_walk"
    /\ previous_position = position
    /\ position = [x |-> 0, y |-> 19]
    /\ ~moving[1]
    /\ moving[2]

\* C5 as stated: after setup, one toggle and 5 ticks the player is at (0,4),
\* active, with the initial phase negated.
C5_AsStated ==
    scenario = 6 =>
        /\ position = [x |-> 0, y |-> 4]
        /\ moving = <<TRUE, FALSE>>

\* C5 amended: after setup, one toggle and 5 ticks the player is at (0,5),
\* still facing North, active, with the initial phase negated.
C5_FiveTicks ==
    scenario = 6 =>
        /\ position = [x |-> 0, y |-> 5]
        /\ direction = "North"
        /\ moving = <<TRUE, FALSE>>

\* C5 witness: the scripted run has ended with its fifth tick.
C5_Witness ==
    /\ scenario = 6
    /\ system = "entity_walk"

\* The sprite index law as the specification states it.
SpriteIndexLaw(d, active, phase) ==
    LET base == CASE d = "North" -> 40
                  [] d = "South" -> 4
                  [] d = "East"  -> 28
                  [] d = "West"  -> 16
    IN  IF ~active THEN base
        ELSE IF phase THEN base + 1
        ELSE base - 1

\* C6: the sprite index the presentation step selects for the player is
\* base(d) when idle, base(d) + 1 when walking with the phase set and
\* base(d) - 1 when walking with the phase clear, the bases being 40
\* (North), 4 (South), 28 (East) and 16 (West).
C6_SpriteIndexLaw ==
    system = "animate_player_sprite" /\ windows # None
        => sprite_index = SpriteIndexLaw(direction, moving[1], moving[2])

\* C6 witness: the sprite of a player walking south with the phase clear
\* was selected.
C6_Witness ==
    /\ system = "animate_player_sprite"
    /\ windows # None
    /\ direction = "South"
    /\ moving = <<TRUE, FALSE>>
    /\ sprite_index = 3

\* C7: a frame of move_player with the release edge of Space negates active
\* and changes neither direction, position nor phase; a frame without it
\* (Space held or untouched) leaves active unchanged.
C7_ToggleOnRelease ==
    [][Ran("move_player") =>
         IF "Space" \in keyboard_input'.just_released
         THEN /\ moving'[1] = ~moving[1]
              /\ moving'[2] = moving[2]
              /\ direction' = direction
              /\ position' = position
         ELSE moving' = moving]_vars

\* C7 witness: a frame with Space held and no release edge ran while the
\* player was walking.
C7_Witness ==
    /\ system = "move_player"
    /\ keyboard_input = [pressed |-> {"Space"}, just_released |-> {}]
    /\ moving[1]

\* The direction a directional key stands for.
KeyDirection(k) ==
    CASE k = "W" -> "North"
      [] k = "A" -> "West"
      [] k = "S" -> "South"
      [] k = "D" -> "East"

\* C8: a frame of change_player_direction leaves position, active and phase
\* unchanged; with one directional key pressed the direction becomes that
\* key's, with none pressed it is unchanged.
C8_DirectionOnly ==
    [][Ran("change_player_direction") =>
         /\ position' = position
         /\ moving' = moving
         /\ keyboard_input'.pressed = {} => direction' = direction
         /\ \A k \in DirectionKeys :
               keyboard_input'.pressed = {k} => direction' = KeyDirection(k)]_vars

\* C8 witness: A was pressed while the player walked, away from the start.
C8_Witness ==
    /\ system = "change_player_direction"
    /\ keyboard_input.pressed = {"A"}
    /\ direction = "West"
    /\ moving[1]
    /\ position.x > 0

\* C9 as stated: among the held directional keys the one ranked earliest in
\* the order North, West, South, East determines the direction.
C9_AsStated ==
    [][Ran("change_player_direction") /\ keyboard_input'.pressed # {} =>
         direction' = (IF "W" \in keyboard_input'.pressed THEN "North"
                       ELSE IF "A" \in keyboard_input'.pressed THEN "West"
                       ELSE IF "S" \in keyboard_input'.pressed THEN "South"
                       ELSE "East")]_vars

\* C9 amended: the direction depends only on the set of held directional
\* keys, and among them the one ranked latest in the order North, West,
\* South, East determines it.
C9_LastPolledWins ==
    [][Ran("change_player_direction") /\ keyboard_input'.pressed # {} =>
         direction' = (IF "D" \in keyboard_input'.pressed THEN "East"
                       ELSE IF "S" \in keyboard_input'.pressed THEN "South"
                       ELSE IF "A" \in keyboard_input'.pressed THEN "West"
                       ELSE "North")]_vars

\* C9 witness: W and D were held in one frame.
C9_Witness ==
    /\ system = "change_player_direction"
    /\ keyboard_input.pressed = {"W", "D"}
    /\ direction = "East"

\* C10: a tick with active = false leaves position, direction, active and
\* phase unchanged.
C10_IdleTick ==
    [][Ran("entity_walk") /\ ~moving[1] =>
         /\ position' = position
         /\ direction' = direction
         /\ moving' = moving]_vars

\* C10 witness: a tick ran on an idle player standing inside the arena.
C10_Witness ==
    /\ system = "entity_walk"
    /\ previous_position = None
    /\ ~moving[1]
    /\ position = [x |-> 7, y |-> 3]
    /\ direction = "South"

\* The f32 v is exactly the rational n / 40.  With v = m * 2^e, m odd, and
\* 40 = 8 * 5, this needs e >= -3.
IsExactly40th(v, n) ==
    IF v[2] >= 0 THEN 40 * v[1] * 2 ^ v[2] = n
    ELSE v[2] >= -3 /\ 40 * v[1] = n * 2 ^ (-v[2])

\* x * 2^22 <= 40 * w * 2^s, for 0 <= x <= 2^s, s <= 30, w < 2^12
ScaledAtMost(x, w, s) ==
    IF s >= 22 THEN x <= 40 * w * 2 ^ (s - 22)
    ELSE x * 2 ^ (22 - s) <= 40 * w

\* |v - n / 40| <= w * 2^-22, for n # 0 and 0 < w < 2^12: 40 * |v| is
\* q + r / 2^s, and the bound is below 1 / 40.
Within40th(v, n, w) ==
    LET a == abs(v[1])
        s == -v[2]
    IN  /\ (v[1] < 0) = (n < 0)
        /\ v[1] # 0
        /\ IF s <= 0 THEN 40 * a * 2 ^ (-s) = abs(n)
           ELSE /\ s <= 30
                /\ LET q == (40 * a) \div (2 ^ s)
                       r == (40 * a) % (2 ^ s)
                   IN  \/ q = abs(n) /\ ScaledAtMost(r, w, s)
                       \/ q = abs(n) - 1 /\ ScaledAtMost(2 ^ s - r, w, s)

\* p * W / 20 - W / 2 + W / 40, in 40ths: W * (2 * p - 19)
Exact40ths(p, w) == w * (2 * p - 19)

\* The presentation step has just written the player's transform.
PlayerPresented == system = "animate_player_sprite" /\ windows # None

\* C12 as stated: on either axis and for every viewport extent W, the
\* screen coordinate of cell index p is p * W / 20 - W / 2 + W / 40.
C12_AsStated ==
    PlayerPresented =>
        /\ IsExactly40th(translation[1], Exact40ths(position.x, windows.width))
        /\ IsExactly40th(translation[2], Exact40ths(position.y, windows.height))

\* C12 amended: on either axis the screen coordinate of cell index p
\* differs from p * W / 20 - W / 2 + W / 40 by at most W * 2^-22 (the
\* rounding of the f32 operations); at the viewport extent 1500 of the
\* window descriptor the two extreme cells are exact, -712.5 and 712.5.
C12_WithinRounding ==
    PlayerPresented =>
        /\ Within40th(translation[1], Exact40ths(position.x, windows.width), windows.width)
        /\ Within40th(translation[2], Exact40ths(position.y, windows.height), windows.height)
        /\ windows.width = 1500 /\ position.x = 0 => translation[1] = <<-1425, -1>>
        /\ windows.width = 1500 /\ position.x = 19 => translation[1] = <<1425, -1>>
        /\ windows.height = 1500 /\ position.y = 0 => translation[2] = <<-1425, -1>>
        /\ windows.height = 1500 /\ position.y = 19 => translation[2] = <<1425, -1>>

\* C12 witness: the player was drawn in the cell (0, 19) of the 1500 x 1500
\* window, at (-712.5, 712.5).
C12_Witness ==
    /\ PlayerPresented
    /\ windows = PrimaryWindow
    /\ position = [x |-> 0, y |-> 19]
    /\ translation = <<<<-1425, -1>>, <<1425, -1>>, <<0, 0>>>>

\* C11: in a walk without key input, with ticks recurring, a walking player
\* eventually stands idle in the last cell before the wall it faces, and no
\* more than 20 ticks find it walking.
C11_WalkEnds ==
    /\ [](ticks <= 20)
    /\ moving[1] ~> (~moving[1] /\ FacesWall(direction, position))

\* C11 witness: the 20th tick of a walk along a whole row stopped the player
\* at the east wall.
C11_Witness ==
    /\ ticks = 20
    /\ system = "entity_walk"
    /\ direction = "East"
    /\ position.x = 19
    /\ previous_position = position
    /\ ~moving[1]

\* The translation a presentation step with the given window writes to an
\* entity at grid position p.
ScreenPosition(p, window) ==
    Vec3_new(window_columns[window][p.x], window_rows[window][p.y], f32_from_i32(0))

\* The translations of the tiles: the x of every column of tiles and the y
\* of every row of tiles, with the Position that puts each tile in its
\* column and row.
tile_translations == <<tiles.columns, tiles.rows, tiles.position>>

\* C13: a presentation step that finds no primary window leaves the
\* translation of the player, and of every tile, as it was; a presentation
\* step that finds a window, whatever the frames before it found, sets the
\* translation of the player, and of every tile, to the screen position of
\* its grid position in that window.
C13_WindowUnavailable ==
    [][/\ Ran("animate_player_sprite") /\ windows' = None =>
            translation' = translation
       /\ Ran("animate_tiles") /\ windows' = None =>
            tile_translations' = tile_translations
       /\ Ran("animate_player_sprite") /\ windows' # None =>
            translation' = ScreenPosition(position, windows')
       /\ Ran("animate_tiles") /\ windows' # None =>
            /\ \A x \in 0 .. (ARENA_WIDTH - 1) :
                    tiles'.columns[x] = ScreenPosition([x |-> x, y |-> 0], windows')[1]
            /\ \A y \in 0 .. (ARENA_HEIGHT - 1) :
                    tiles'.rows[y] = ScreenPosition([x |-> 0, y |-> y], windows')[2]
            /\ tiles'.position = tiles.position
      ]_vars

\* C13 witness: a tile presentation step found no window, after the player,
\* moved off the corner, and the tiles had been placed in the 1500 x 1500
\* window: the player and the first tile still are where they were placed.
C13_Witness ==
    /\ system = "animate_tiles"
    /\ windows = None
    /\ position = [x |-> 0, y |-> 1]
    /\ translation = ScreenPosition(position, PrimaryWindow)
    /\ tile_translation(1) = ScreenPosition(tile_position(1), PrimaryWindow)

\* C14: a run of animate_player_sprite or of animate_tiles, with or without
\* a window, leaves the player's Direction, Moving (active and phase) and
\* Position and the Position of every tile as they were.
C14_PresentationReadOnly ==
    [][Ran("animate_player_sprite") \/ Ran("animate_tiles") =>
            /\ direction' = direction
            /\ moving' = moving
            /\ position' = position
            /\ tiles'.position = tiles.position
      ]_vars

\* C14 witness: the player presentation ran, without a window, on an idle
\* player that a tick had left on the second walking frame one cell north
\* of the corner, and the player still is as the tick left it.
C14_Witness ==
    /\ system = "animate_player_sprite"
    /\ windows = None
    /\ moving = <<FALSE, FALSE>>
    /\ direction = "North"
    /\ position = [x |-> 0, y |-> 1]

\* setup puts exactly one tile on every cell of the arena.
SetupOneTilePerCell ==
    \A cell \in Position :
        Cardinality({i \in Tiles : setup_tile_position(i) = cell}) = 1

\* C15: there are 400 tiles, one on each cell of the 20 x 20 arena, and one
\* player; in every state reached by input frames, ticks and presentation
\* frames every tile has the Position setup gave it; no step writes the
\* Position of a tile; and the only entity entity_walk iterates over, and
\* so the only one a tick moves, is the player.
C15_FixedPopulation ==
    /\ [](/\ Cardinality(Tiles) = 400
          /\ Cardinality(Query({"Tile"})) = 400
          /\ SetupOneTilePerCell
          /\ Query({"Player"}) = {PlayerEntity}
          /\ entity_walk_query = {PlayerEntity}
          /\ \A i \in Tiles : tile_position(i) = setup_tile_position(i))
    /\ [][tiles'.position = tiles.position]_vars

\* C15 witness: a tick has moved the player east onto the cell of the
\* second tile, after the tiles were drawn: the tile is on its cell still.
C15_Witness ==
    /\ system = "entity_walk"
    /\ previous_position = [x |-> 0, y |-> 0]
    /\ position = [x |-> 1, y |-> 0]
    /\ tile_position(2) = position
    /\ tile_sprite_index(2) = 5

\* C16: a step that turns active from false to true is a frame of
\* move_player with the release edge of Space (so no tick, directional-key
\* frame or presentation step starts a walk); a step that turns active from
\* true to false is such a frame of move_player, or a tick that found the
\* player in the last cell before the wall it faces and did not move it.
C16_ActiveChanges ==
    [][/\ ~moving[1] /\ moving'[1] =>
            /\ Ran("move_player")
            /\ "Space" \in keyboard_input'.just_released
       /\ moving[1] /\ ~moving'[1] =>
            \/ /\ Ran("move_player")
               /\ "Space" \in keyboard_input'.just_released
            \/ /\ Ran("entity_walk")
               /\ FacesWall(direction, position)
               /\ position' = position
      ]_vars

\* C16 witness: a walk started by a release of Space while the player
\* faced the west wall from the corner was ended by the next tick, and the
\* presentation has since run with the player idle.
C16_Witness ==
    /\ system = "animate_player_sprite"
    /\ windows # None
    /\ direction = "West"
    /\ position = [x |-> 0, y |-> 0]
    /\ moving = <<FALSE, FALSE>>
    /\ sprite_index = PLAYER_SPRITE_WEST

\* C17 as stated: after every run of animate_player_sprite the player's
\* sprite index is the sprite-index-law value of its current direction,
\* active and phase (so the idle base index once a walk has ended), and
\* after every run of animate_tiles the sprite index of every tile is 5.
C17_AsStated ==
    /\ system = "animate_player_sprite" =>
            sprite_index = SpriteIndexLaw(direction, moving[1], moving[2])
    /\ system = "animate_tiles" =>
            \A i \in Tiles : tile_sprite_index(i) = 5

\* C17, the failing frame: the player was drawn idle facing north, a release
\* of Space started the walk, and the next run of animate_player_sprite
\* found no primary window: the idle index 40 is still shown for a walking
\* player, where the law gives 41.
C17_Witness ==
    /\ system = "animate_player_sprite"
    /\ windows = None
    /\ direction = "North"
    /\ moving = <<TRUE, TRUE>>
    /\ sprite_index = PLAYER_SPRITE_NORTH
    /\ SpriteIndexLaw(direction, moving[1], moving[2]) = 41

\* C18: for the player in every reachable state and for every keyboard
\* state, change_player_direction followed by move_player leaves the player
\* with the same direction, active, phase and position as move_player
\* followed by change_player_direction.
C18_InputSystemsCommute ==
    \A keys \in KeyboardInput :
        move_player_on(change_player_direction_on(player, keys), keys)
            = change_player_direction_on(move_player_on(player, keys), keys)

\* C18 witness: the player stands where a frame with D held and the release
\* edge of Space, in which both systems acted, turns a player walking north
\* on the second walking frame at cell (3, 2) into an idle one facing east.
C18_Witness ==
    LET keys == [pressed |-> {"D"}, just_released |-> {"Space"}]
        before == [direction |-> "North", moving |-> <<TRUE, FALSE>>,
                   position |-> [x |-> 3, y |-> 2]]
    IN  /\ system = "move_player"
        /\ "Space" \in keyboard_input.just_released
        /\ player = move_player_on(change_player_direction_on(before, keys), keys)
        /\ player = [before EXCEPT !.direction = "East", !.moving = <<FALSE, FALSE>>]

\* The twelve indices base - 1, base, base + 1 of the four bases.
PlayerSpriteIndices ==
    {base + offset : base \in {40, 4, 28, 16}, offset \in {-1, 0, 1}}

\* C19: the sprite index selected for the player, whatever its direction,
\* active and phase, is one of the twelve values base - 1, base, base + 1
\* of the bases 40, 4, 28 and 16; base - 1 of the direction faced is not
\* negative (the unsigned subtraction does not underflow); and the index
\* is a cell of the 12 x 8 atlas: 0 <= index < 96.
C19_SpriteIndexInAtlas ==
    PlayerPresented =>
        /\ Cardinality(PlayerSpriteIndices) = 12
        /\ sprite_index \in PlayerSpriteIndices
        /\ body_sprite_for(direction, moving) = sprite_index
        /\ center_sprite_for(direction) - 1 >= 0
        /\ 0 <= sprite_index
        /\ sprite_index < 96
        /\ CHARACTERS_ATLAS_COLUMNS * CHARACTERS_ATLAS_ROWS = 96

\* C19 witness: the smallest index, the subtraction on the smallest base,
\* was selected in the 800 x 600 window.
C19_Witness ==
    /\ PlayerPresented
    /\ windows = [width |-> 800, height |-> 600]
    /\ direction = "South"
    /\ moving[1] /\ ~moving[2]
    /\ sprite_index = PLAYER_SPRITE_SOUTH - 1

====
